---- MODULE Spec2Model ----
(***************************************************************************)
(* A model of MQLibrary (src/src/MQLibrary/library.py), the Robot          *)
(* Framework keyword library over the ibmmq client binding, and of         *)
(* MQMIError_handling (src/src/IBMMQLibrary/exceptions.py).                *)
(*                                                                         *)
(* The library object holds one field, the mapping `connections` from      *)
(* alias to queue manager object.  Every keyword is one action; the loops  *)
(* inside a keyword are recursive operators that follow the code           *)
(* statement by statement and record every native call they make.  The     *)
(* keywords run one at a time (the library has no threads), and nobody     *)
(* else produces or consumes while a keyword runs.                         *)
(*                                                                         *)
(* The ibmmq binding and the queue managers behind it are the environment: *)
(* a queue is a FIFO sequence of byte strings, a destructive get takes the *)
(* head, a browse get moves a cursor, and a get on an exhausted queue      *)
(* fails with MQRC_NO_MSG_AVAILABLE.  Any native call may also fail with   *)
(* another reason code; which call fails is an input of the action.        *)
(* ibmmq.Queue(...) is taken to open the handle (the binding may defer the *)
(* open to the first put or get; a failing open then surfaces there), and  *)
(* close is taken not to raise.  A queue manager object is known by the    *)
(* queue manager it is connected to.                                       *)
(***************************************************************************)
EXTENDS Integers, Sequences, FiniteSets, TLC

\* ------------------------------------------------------------------ bounds
\* The largest number of messages on the queues, all together.
MaxQueue == 2

\* ------------------------------------------------------- program constants
MQRC_NO_MSG_AVAILABLE == 2033
MQRC_Q_MGR_NAME_ERROR == 2058
MQRC_HOST_NOT_AVAILABLE == 2538
MQRC_UNKNOWN_CHANNEL_NAME == 2540
MQRC_SECURITY_ERROR == 2063

\* ------------------------------------------------------------ input domains
Aliases == {"default", "other"}
QMgrs == {"QM1", "QM2"}
QueueNames == {"QUEUE.TEST"}

\* message_amount / max_messages: too few, exact, too many, and a negative one
Amounts == (0 - 1) .. (MaxQueue + 1)

\* Reason codes of MQ errors that no branch of the library names
\* (MQRC_CONNECTION_BROKEN, MQRC_NOT_AUTHORIZED).
OtherReasons == {2009, 2035}

\* The texts Put MQ Message is called with, as code point sequences: "e-acute".
Texts == {<<233>>}

\* A message another application has put that is not valid UTF-8:
\* the single byte 0xA9 (the ISO-8859-1 copyright sign).
ForeignMessages == {<<169>>}

\* What a native call can raise.
NoError == [type |-> "none", reason |-> 0]
MQMIError(reason) == [type |-> "MQMIError", reason |-> reason]
PYIFError == [type |-> "PYIFError", reason |-> 0]

\* A fault: the at-th native call of a keyword raises MQMIError(reason); at = 0: none does.
NoFault == [at |-> 0, reason |-> 0]
FaultPositions == 1 .. 3
Faults == {NoFault} \cup [at : FaultPositions, reason : {2009}]

\* The outcomes of the native connect and disconnect calls.
ConnectResults ==
    {NoError, PYIFError}
    \cup {MQMIError(r) : r \in {MQRC_Q_MGR_NAME_ERROR, MQRC_HOST_NOT_AVAILABLE,
                                MQRC_UNKNOWN_CHANNEL_NAME, MQRC_SECURITY_ERROR}
                               \cup OtherReasons}
DisconnectResults == {NoError, PYIFError} \cup {MQMIError(r) : r \in OtherReasons}

\* --------------------------------------------------------------- encodings
\* str.encode('utf-8') for code points below 0x800.
RECURSIVE EncodeUTF8(_)
EncodeUTF8(text) ==
    IF text = <<>> THEN <<>>
    ELSE LET c == Head(text)
         IN (IF c < 128 THEN <<c>> ELSE <<192 + (c \div 64), 128 + (c % 64)>>)
            \o EncodeUTF8(Tail(text))

\* bytes.decode('utf-8'): [ok, text]; ok = FALSE stands for UnicodeDecodeError.
RECURSIVE DecodeUTF8(_)
DecodeUTF8(bytes) ==
    IF bytes = <<>> THEN [ok |-> TRUE, text |-> <<>>]
    ELSE LET b == Head(bytes)
         IN IF b < 128
            THEN LET rest == DecodeUTF8(Tail(bytes))
                 IN [ok |-> rest.ok, text |-> <<b>> \o rest.text]
            ELSE IF b >= 194 /\ b <= 223 /\ Len(bytes) >= 2
                    /\ bytes[2] >= 128 /\ bytes[2] <= 191
            THEN LET rest == DecodeUTF8(Tail(Tail(bytes)))
                 IN [ok |-> rest.ok,
                     text |-> <<(b - 192) * 64 + (bytes[2] - 128)>> \o rest.text]
            ELSE [ok |-> FALSE, text |-> <<>>]

\* bytes.decode('iso-8859-1'): every byte is its own code point.
DecodeLatin1(bytes) == bytes

\* The decoding of a received message: UTF-8, falling back to ISO-8859-1.
Decode(message) ==
    LET u == DecodeUTF8(message)
    IN IF u.ok THEN u.text ELSE DecodeLatin1(message)

\* The messages a queue can hold and the contents it can have.
Messages == {EncodeUTF8(t) : t \in Texts} \cup ForeignMessages

RECURSIVE SeqsUpTo(_, _)
SeqsUpTo(S, n) ==
    IF n = 0 THEN {<<>>}
    ELSE LET shorter == SeqsUpTo(S, n - 1)
         IN shorter \cup {Append(s, x) : s \in {t \in shorter : Len(t) = n - 1}, x \in S}

QueueContents == SeqsUpTo(Messages, MaxQueue)

\* The number of messages on all queues.
RECURSIVE DepthOf(_, _)
DepthOf(qs, keys) ==
    IF keys = {} THEN 0
    ELSE LET k == CHOOSE x \in keys : TRUE
         IN Len(qs[k]) + DepthOf(qs, keys \ {k})

Depth(qs) == DepthOf(qs, DOMAIN qs)

RECURSIVE DecodeAll(_)
DecodeAll(msgs) ==
    IF msgs = <<>> THEN <<>> ELSE <<Decode(Head(msgs))>> \o DecodeAll(Tail(msgs))

Min(a, b) == IF a < b THEN a ELSE b

\* ------------------------------------------------------ the native binding
\* queue_obj.get(None, md, gmo) on a queue holding q, the browse cursor of the
\* handle at `cursor`: the return code, the message, the queue and the cursor after.
\* A fresh message descriptor is passed each time, so every message matches.
MQGET(q, cursor, option) ==
    CASE option = "DESTRUCTIVE" ->
            IF q = <<>>
            THEN [rc |-> MQRC_NO_MSG_AVAILABLE, msg |-> <<>>, q |-> q, cursor |-> cursor]
            ELSE [rc |-> 0, msg |-> Head(q), q |-> Tail(q), cursor |-> cursor]
      [] option = "BROWSE_FIRST" ->
            IF q = <<>>
            THEN [rc |-> MQRC_NO_MSG_AVAILABLE, msg |-> <<>>, q |-> q, cursor |-> cursor]
            ELSE [rc |-> 0, msg |-> q[1], q |-> q, cursor |-> 1]
      [] option = "BROWSE_NEXT" ->
            IF cursor + 1 > Len(q)
            THEN [rc |-> MQRC_NO_MSG_AVAILABLE, msg |-> <<>>, q |-> q, cursor |-> cursor]
            ELSE [rc |-> 0, msg |-> q[cursor + 1], q |-> q, cursor |-> cursor + 1]

\* queue_obj.put(message_bytes, md): the message goes to the tail.
MQPUT(q, message) == [rc |-> 0, q |-> Append(q, message)]

\* Does the next native call of a keyword that has made `calls` raise the fault?
Faulty(calls, fault) == fault.at = Len(calls) + 1

Count(calls, name) == Cardinality({i \in 1 .. Len(calls) : calls[i] = name})

\* ---------------------------------------------------------------- keywords
\* The state of a keyword body: what it raised (exc), what it returns (ret), the
\* native calls it made, the content of the queue it works on, and whether
\* queue_obj is set.
Body(exc, ret, calls, q, queue_obj) ==
    [exc |-> exc, ret |-> ret, calls |-> calls, q |-> q, queue_obj |-> queue_obj]

ValueError == [type |-> "ValueError", reason |-> 0]
AssertionError == [type |-> "AssertionError", reason |-> 0]

\* ---- exceptions.py
\* MQMIError_handling: the exception that leaves the function.
\* The variant without the MQRC_SECURITY_ERROR case.
MQMIError_handling_unmapped_security(mqerror) ==
    IF mqerror.reason \in {MQRC_Q_MGR_NAME_ERROR, MQRC_HOST_NOT_AVAILABLE,
                           MQRC_UNKNOWN_CHANNEL_NAME}
    THEN [type |-> "ValueError", reason |-> mqerror.reason]
    ELSE mqerror

MQMIError_handling(mqerror) ==
    CASE mqerror.reason = MQRC_Q_MGR_NAME_ERROR ->
            [type |-> "ValueError", reason |-> mqerror.reason]
      [] mqerror.reason = MQRC_HOST_NOT_AVAILABLE ->
            [type |-> "ValueError", reason |-> mqerror.reason]
      [] mqerror.reason = MQRC_UNKNOWN_CHANNEL_NAME ->
            [type |-> "ValueError", reason |-> mqerror.reason]
      [] mqerror.reason = MQRC_SECURITY_ERROR ->
            [type |-> "ValueError", reason |-> mqerror.reason]
      [] OTHER -> mqerror   \* the bare raise re-raises the error being handled

\* ---- Connect MQ
\* ibmmq.QueueManager(None) connected to queue_manager: the object is known by the
\* queue manager it is connected to.
NewQueueManager(queue_manager) == [qm |-> queue_manager]

Store(conns, alias, qmgr) ==
    [a \in DOMAIN conns \cup {alias} |-> IF a = alias THEN qmgr ELSE conns[a]]

\* The result of a connection keyword: the exception, the mapping, the native calls.
ConnResult(exc, conns, calls) == [exc |-> exc, conns |-> conns, calls |-> calls]

\* The variant without the alias check of line 81.
connect_mq_no_guard(conns, alias, queue_manager, native) ==
    IF native.type = "none"
    THEN ConnResult(NoError, Store(conns, alias, NewQueueManager(queue_manager)),
                    <<"MQCONNX">>)
    ELSE IF native.type = "MQMIError"
    THEN ConnResult(MQMIError_handling(native), conns, <<"MQCONNX_FAILED">>)
    ELSE ConnResult(native, conns, <<"MQCONNX_FAILED">>)

\* The variant that stores the queue manager before connecting it.
connect_mq_store_first(conns, alias, queue_manager, native) ==
    IF alias \in DOMAIN conns
    THEN ConnResult(ValueError, conns, <<>>)
    ELSE LET stored == Store(conns, alias, NewQueueManager(queue_manager))
         IN IF native.type = "none"
            THEN ConnResult(NoError, stored, <<"MQCONNX">>)
            ELSE IF native.type = "MQMIError"
            THEN ConnResult(MQMIError_handling(native), stored, <<"MQCONNX_FAILED">>)
            ELSE ConnResult(native, stored, <<"MQCONNX_FAILED">>)

connect_mq(conns, alias, queue_manager, native) ==
    IF alias \in DOMAIN conns
    THEN ConnResult(ValueError, conns, <<>>)                        \* line 81
    ELSE IF native.type = "none"                                    \* line 93
    THEN ConnResult(NoError, Store(conns, alias, NewQueueManager(queue_manager)),
                    <<"MQCONNX">>)                                  \* line 101
    ELSE IF native.type = "MQMIError"
    THEN ConnResult(MQMIError_handling(native), conns, <<"MQCONNX_FAILED">>)
    ELSE ConnResult(native, conns, <<"MQCONNX_FAILED">>)            \* line 106

\* ---- Disconnect MQ
Remove(conns, alias) == [a \in DOMAIN conns \ {alias} |-> conns[a]]

\* The variant that deletes the key in the try block instead of the finally clause.
disconnect_mq_no_finally(conns, alias, native) ==
    IF alias \in DOMAIN conns
    THEN IF native.type = "none"
         THEN ConnResult(NoError, Remove(conns, alias), <<"MQDISC">>)
         ELSE ConnResult(NoError, conns, <<"MQDISC_FAILED">>)
    ELSE ConnResult(NoError, conns, <<>>)

disconnect_mq(conns, alias, native) ==
    IF alias \in DOMAIN conns
    THEN IF native.type = "none"
         THEN ConnResult(NoError, Remove(conns, alias), <<"MQDISC">>)
         \* except Exception: logged, not raised; finally: del
         ELSE ConnResult(NoError, Remove(conns, alias), <<"MQDISC_FAILED">>)
    ELSE ConnResult(NoError, conns, <<>>)

\* ---- Disconnect All MQ Connections: disconnect_mq for each key of the mapping;
\* failing is the set of aliases whose native disconnect raises.
RECURSIVE disconnect_all_from(_, _, _, _)
disconnect_all_from(conns, keys, failing, calls) ==
    IF keys = {}
    THEN ConnResult(NoError, conns, calls)
    ELSE LET alias == CHOOSE a \in keys : TRUE
             r == disconnect_mq(conns, alias,
                                IF alias \in failing THEN PYIFError ELSE NoError)
         IN IF r.exc.type # "none"
            THEN ConnResult(r.exc, r.conns, calls \o r.calls)
            ELSE disconnect_all_from(r.conns, keys \ {alias}, failing, calls \o r.calls)

disconnect_all(conns, failing) == disconnect_all_from(conns, DOMAIN conns, failing, <<>>)

\* ---- _get_qmgr
NoQueueManager == [qm |-> ""]

\* The variant that returns some connection of the mapping.
_get_qmgr_any(conns, alias) ==
    IF alias \notin DOMAIN conns
    THEN [exc |-> ValueError, qmgr |-> NoQueueManager]
    ELSE [exc |-> NoError, qmgr |-> conns[CHOOSE a \in DOMAIN conns : TRUE]]

_get_qmgr(conns, alias) ==
    IF alias \notin DOMAIN conns
    THEN [exc |-> ValueError, qmgr |-> NoQueueManager]
    ELSE [exc |-> NoError, qmgr |-> conns[alias]]

\* ---- finally: if queue_obj: queue_obj.close()
\* The variant that closes at the end of the try block instead.
close_on_exit_unless_raised(body) ==
    IF body.queue_obj /\ body.exc.type = "none"
    THEN [body EXCEPT !.calls = Append(@, "MQCLOSE")]
    ELSE body

close_on_exit(body) ==
    IF body.queue_obj
    THEN [body EXCEPT !.calls = Append(@, "MQCLOSE")]
    ELSE body

\* ---- Put MQ Message
\* the try block, on the content q of the queue
put_message_try(q, message, fault) ==
    IF Faulty(<<>>, fault)                                     \* ibmmq.Queue raises
    THEN Body(MQMIError(fault.reason), <<>>, <<"MQOPEN_FAILED">>, q, FALSE)
    ELSE IF Faulty(<<"MQOPEN">>, fault)
    THEN Body(MQMIError(fault.reason), <<>>, <<"MQOPEN", "MQPUT_FAILED">>, q, TRUE)
    ELSE LET p == MQPUT(q, EncodeUTF8(message))
         IN Body(NoError, <<>>, <<"MQOPEN", "MQPUT">>, p.q, TRUE)

\* ---- Get MQ Messages
\* for _ in range(message_amount): `remaining` iterations are left
RECURSIVE get_loop(_, _, _, _, _)
get_loop(q, remaining, messages, calls, fault) ==
    IF remaining <= 0
    THEN Body(NoError, messages, calls, q, TRUE)
    ELSE IF Faulty(calls, fault)
    THEN Body(MQMIError(fault.reason), messages, Append(calls, "MQGET_FAILED"), q, TRUE)
    ELSE LET g == MQGET(q, 0, "DESTRUCTIVE")
         IN IF g.rc = MQRC_NO_MSG_AVAILABLE
            THEN Body(NoError, messages, Append(calls, "MQGET_NO_MSG"), q, TRUE)  \* break
            ELSE get_loop(g.q, remaining - 1, Append(messages, Decode(g.msg)),
                          Append(calls, "MQGET"), fault)

\* The variant that returns whatever was received.
check_amount_lenient(body, message_amount) ==
    body

\* lines 189-193: the list, or AssertionError
check_amount(body, message_amount) ==
    IF body.exc.type # "none" THEN [body EXCEPT !.ret = <<>>]
    ELSE IF Len(body.ret) = message_amount THEN body
    ELSE [body EXCEPT !.exc = AssertionError, !.ret = <<>>]

get_messages_try(q, message_amount, fault) ==
    IF Faulty(<<>>, fault)
    THEN Body(MQMIError(fault.reason), <<>>, <<"MQOPEN_FAILED">>, q, FALSE)
    ELSE check_amount(get_loop(q, message_amount, <<>>, <<"MQOPEN">>, fault),
                      message_amount)

\* ---- Browse MQ Messages
\* The variant that browses from the start each time.
browse_option_first(i) == "BROWSE_FIRST"

\* line 227
browse_option(i) == IF i = 0 THEN "BROWSE_FIRST" ELSE "BROWSE_NEXT"

\* for i in range(max_messages)
RECURSIVE browse_loop(_, _, _, _, _, _, _)
browse_loop(q, cursor, i, max_messages, messages, calls, fault) ==
    IF i >= max_messages
    THEN Body(NoError, messages, calls, q, TRUE)
    ELSE IF Faulty(calls, fault)
    THEN Body(MQMIError(fault.reason), <<>>, Append(calls, "MQGET_FAILED"), q, TRUE)
    ELSE LET g == MQGET(q, cursor, browse_option(i))
         IN IF g.rc = MQRC_NO_MSG_AVAILABLE
            THEN Body(NoError, messages, Append(calls, "MQGET_NO_MSG"), q, TRUE)  \* break
            ELSE browse_loop(g.q, g.cursor, i + 1, max_messages,
                             Append(messages, Decode(g.msg)), Append(calls, "MQGET"), fault)

browse_messages_try(q, max_messages, fault) ==
    IF Faulty(<<>>, fault)
    THEN Body(MQMIError(fault.reason), <<>>, <<"MQOPEN_FAILED">>, q, FALSE)
    ELSE browse_loop(q, 0, 0, max_messages, <<>>, <<"MQOPEN">>, fault)

\* ---- Clear MQ Queue
\* The variant with `if` for `while`: one get.
clear_loop_once(q, calls, fault) ==
    IF Faulty(calls, fault)
    THEN Body(MQMIError(fault.reason), <<>>, Append(calls, "MQGET_FAILED"), q, TRUE)
    ELSE LET g == MQGET(q, 0, "DESTRUCTIVE")
         IN IF g.rc = MQRC_NO_MSG_AVAILABLE
            THEN Body(NoError, <<>>, Append(calls, "MQGET_NO_MSG"), q, TRUE)
            ELSE Body(NoError, <<>>, Append(calls, "MQGET"), g.q, TRUE)

\* while True: get, until MQRC_NO_MSG_AVAILABLE
RECURSIVE clear_loop(_, _, _)
clear_loop(q, calls, fault) ==
    IF Faulty(calls, fault)
    THEN Body(MQMIError(fault.reason), <<>>, Append(calls, "MQGET_FAILED"), q, TRUE)
    ELSE LET g == MQGET(q, 0, "DESTRUCTIVE")
         IN IF g.rc = MQRC_NO_MSG_AVAILABLE
            THEN Body(NoError, <<>>, Append(calls, "MQGET_NO_MSG"), q, TRUE)      \* break
            ELSE clear_loop(g.q, Append(calls, "MQGET"), fault)

\* lines 287-297: the final verification that the queue is empty
verify_empty(body, fault) ==
    IF body.exc.type # "none" THEN body
    ELSE IF Faulty(body.calls, fault)
    THEN [body EXCEPT !.exc = MQMIError(fault.reason),
                      !.calls = Append(@, "MQGET_FAILED")]
    ELSE LET g == MQGET(body.q, 0, "DESTRUCTIVE")
         IN IF g.rc = MQRC_NO_MSG_AVAILABLE
            THEN [body EXCEPT !.calls = Append(@, "MQGET_NO_MSG")]
            ELSE [body EXCEPT !.exc = AssertionError, !.q = g.q,
                              !.calls = Append(@, "MQGET")]

clear_queue_try(q, fault) ==
    IF Faulty(<<>>, fault)
    THEN Body(MQMIError(fault.reason), <<>>, <<"MQOPEN_FAILED">>, q, FALSE)
    ELSE verify_empty(clear_loop(q, <<"MQOPEN">>, fault), fault)

\* ---- the keywords on a queue: _get_qmgr, the try block, the finally clause.
\* The result: the exception, the returned list, the native calls, the queues after.
Result(exc, ret, calls, qs) == [exc |-> exc, ret |-> ret, calls |-> calls, qs |-> qs]

Finished(qs, qmgr, queue, body) ==
    Result(body.exc, body.ret, body.calls, [qs EXCEPT ![<<qmgr.qm, queue>>] = body.q])

put_message(conns, qs, alias, queue, message, fault) ==
    LET g == _get_qmgr(conns, alias)
    IN IF g.exc.type # "none" THEN Result(g.exc, <<>>, <<>>, qs)
       ELSE Finished(qs, g.qmgr, queue,
                     close_on_exit(put_message_try(qs[<<g.qmgr.qm, queue>>], message, fault)))

get_messages(conns, qs, alias, queue, message_amount, fault) ==
    LET g == _get_qmgr(conns, alias)
    IN IF g.exc.type # "none" THEN Result(g.exc, <<>>, <<>>, qs)
       ELSE Finished(qs, g.qmgr, queue,
                     close_on_exit(get_messages_try(qs[<<g.qmgr.qm, queue>>],
                                                    message_amount, fault)))

browse_messages(conns, qs, alias, queue, max_messages, fault) ==
    LET g == _get_qmgr(conns, alias)
    IN IF g.exc.type # "none" THEN Result(g.exc, <<>>, <<>>, qs)
       ELSE Finished(qs, g.qmgr, queue,
                     close_on_exit(browse_messages_try(qs[<<g.qmgr.qm, queue>>],
                                                       max_messages, fault)))

clear_queue(conns, qs, alias, queue, fault) ==
    LET g == _get_qmgr(conns, alias)
    IN IF g.exc.type # "none" THEN Result(g.exc, <<>>, <<>>, qs)
       ELSE Finished(qs, g.qmgr, queue,
                     close_on_exit(clear_queue_try(qs[<<g.qmgr.qm, queue>>], fault)))

\* -------------------------------------------------------------------- state
VARIABLES
    connections,   \* self.connections: alias -> queue manager object
    queues,        \* the queues of the queue managers: <<qmgr, queue>> -> messages
    openHandles,   \* queue handles opened and not closed
    established,   \* history: aliases connected successfully and not disconnected since
    last           \* the last keyword call: its arguments, outcome and native calls

vars == <<connections, queues, openHandles, established, last>>

\* `native` is what the native connect raised, when Connect MQ made the call.
Call(kw, alias, qm, queue, amount, message, native, exc, ret, calls) ==
    [kw |-> kw, alias |-> alias, qm |-> qm, queue |-> queue, amount |-> amount,
     message |-> message, native |-> native, exc |-> exc, ret |-> ret, calls |-> calls]

\* The handles a keyword leaves open: its opens less its closes.
Leaked(calls) == Count(calls, "MQOPEN") - Count(calls, "MQCLOSE")

\* __init__: an empty mapping.  The queues hold whatever other applications left there.
Init ==
    /\ connections = [a \in {} |-> NoQueueManager]
    /\ queues \in {qs \in [QMgrs \X QueueNames -> QueueContents] : Depth(qs) <= MaxQueue}
    /\ openHandles = 0
    /\ established = {}
    /\ last = Call("__init__", "", "", "", 0, <<>>, NoError, NoError, <<>>, <<>>)

ConnectMQ ==
    \E alias \in Aliases, queue_manager \in QMgrs, native \in ConnectResults :
        LET r == connect_mq(connections, alias, queue_manager, native)
        IN /\ connections' = r.conns
           /\ established' = IF r.calls = <<"MQCONNX">>
                             THEN established \cup {alias} ELSE established
           /\ last' = Call("Connect MQ", alias, queue_manager, "", 0, <<>>,
                           IF r.calls = <<>> THEN NoError ELSE native, r.exc, <<>>, r.calls)
           /\ UNCHANGED <<queues, openHandles>>

DisconnectMQ ==
    \E alias \in Aliases, native \in DisconnectResults :
        LET r == disconnect_mq(connections, alias, native)
        IN /\ connections' = r.conns
           /\ established' = established \ {alias}
           /\ last' = Call("Disconnect MQ", alias, "", "", 0, <<>>, NoError, r.exc, <<>>,
                           r.calls)
           /\ UNCHANGED <<queues, openHandles>>

DisconnectAll ==
    \E failing \in SUBSET Aliases :
        LET r == disconnect_all(connections, failing)
        IN /\ connections' = r.conns
           /\ established' = {}
           /\ last' = Call("Disconnect All MQ Connections", "", "", "", 0, <<>>, NoError,
                           r.exc, <<>>, r.calls)
           /\ UNCHANGED <<queues, openHandles>>

PutMQMessage ==
    \E alias \in Aliases, queue \in QueueNames, message \in Texts, fault \in Faults :
        LET r == put_message(connections, queues, alias, queue, message, fault)
        IN /\ Depth(queues) < MaxQueue
           /\ queues' = r.qs
           /\ openHandles' = openHandles + Leaked(r.calls)
           /\ last' = Call("Put MQ Message", alias, "", queue, 0, message, NoError,
                           r.exc, r.ret, r.calls)
           /\ UNCHANGED <<connections, established>>

GetMQMessages ==
    \E alias \in Aliases, queue \in QueueNames, message_amount \in Amounts,
       fault \in Faults :
        LET r == get_messages(connections, queues, alias, queue, message_amount, fault)
        IN /\ queues' = r.qs
           /\ openHandles' = openHandles + Leaked(r.calls)
           /\ last' = Call("Get MQ Messages", alias, "", queue, message_amount, <<>>, NoError,
                           r.exc, r.ret, r.calls)
           /\ UNCHANGED <<connections, established>>

BrowseMQMessages ==
    \E alias \in Aliases, queue \in QueueNames, max_messages \in Amounts,
       fault \in Faults :
        LET r == browse_messages(connections, queues, alias, queue, max_messages, fault)
        IN /\ queues' = r.qs
           /\ openHandles' = openHandles + Leaked(r.calls)
           /\ last' = Call("Browse MQ Messages", alias, "", queue, max_messages, <<>>, NoError,
                           r.exc, r.ret, r.calls)
           /\ UNCHANGED <<connections, established>>

ClearMQQueue ==
    \E alias \in Aliases, queue \in QueueNames, fault \in Faults :
        LET r == clear_queue(connections, queues, alias, queue, fault)
        IN /\ queues' = r.qs
           /\ openHandles' = openHandles + Leaked(r.calls)
           /\ last' = Call("Clear MQ Queue", alias, "", queue, 0, <<>>, NoError,
                           r.exc, r.ret, r.calls)
           /\ UNCHANGED <<connections, established>>

Next ==
    \/ ConnectMQ
    \/ DisconnectMQ
    \/ DisconnectAll
    \/ PutMQMessage
    \/ GetMQMessages
    \/ BrowseMQMessages
    \/ ClearMQQueue

Spec == Init /\ [][Next]_vars

\* ------------------------------------------------------------ properties
QueueKeywords ==
    {"Put MQ Message", "Get MQ Messages", "Browse MQ Messages", "Clear MQ Queue"}

\* The step is a call of keyword kw with an alias that is a key of the mapping.
OnConnected(kw) == last'.kw = kw /\ last'.alias \in DOMAIN connections

\* The queue the call works on, and what it held before the call.
Target == <<connections[last'.alias].qm, last'.queue>>
Before == queues[Target]

\* C1: Get MQ Messages(queue, message_amount) returns exactly message_amount
\* messages, the decoded first message_amount messages of the queue in queue order,
\* which it has removed from the queue, or it raises; when the queue reports
\* 'no message available' it raises AssertionError and returns no list.
C1_GetAllOrFail ==
    [][OnConnected("Get MQ Messages") =>
          /\ last'.exc.type \in {"none", "AssertionError", "MQMIError"}
          /\ last'.exc.type = "none" =>
                /\ last'.amount >= 0
                /\ Len(last'.ret) = last'.amount
                /\ last'.amount <= Len(Before)
                /\ last'.ret = DecodeAll(SubSeq(Before, 1, last'.amount))
                /\ queues'[Target] = SubSeq(Before, last'.amount + 1, Len(Before))
          /\ Count(last'.calls, "MQGET_NO_MSG") > 0 =>
                /\ last'.exc = AssertionError
                /\ last'.ret = <<>>
          /\ last'.exc.type # "none" => last'.ret = <<>>]_vars

\* Get MQ Messages has returned two messages, the second decoded by the fallback.
C1_Witness ==
    /\ last.kw = "Get MQ Messages"
    /\ last.exc.type = "none"
    /\ last.amount = 2
    /\ last.ret = <<<<233>>, <<169>>>>

\* C2: Browse MQ Messages(queue, max_messages) leaves every queue as it was, and
\* returns the decoded first min(max_messages, n) messages in queue order; running
\* out of messages ends the loop and returns the shorter list, it does not raise.
C2_BrowseKeepsQueue ==
    [][OnConnected("Browse MQ Messages") =>
          /\ queues' = queues
          /\ last'.exc.type \in {"none", "MQMIError"}
          /\ last'.exc.type = "none" =>
                last'.ret = DecodeAll(SubSeq(Before, 1, Min(last'.amount, Len(Before))))
          /\ Count(last'.calls, "MQGET_NO_MSG") > 0 =>
                /\ last'.exc.type = "none"
                /\ Len(last'.ret) = Len(Before)
                /\ Len(last'.ret) < last'.amount]_vars

\* Browse MQ Messages has returned both messages of a queue and left them there.
C2_Witness ==
    /\ last.kw = "Browse MQ Messages"
    /\ last.exc.type = "none"
    /\ last.alias \in DOMAIN connections
    /\ Len(last.ret) = 2
    /\ last.ret[1] # last.ret[2]
    /\ last.amount > 2
    /\ Len(queues[<<connections[last.alias].qm, last.queue>>]) = 2

\* C3: Clear MQ Queue on a queue holding n messages never raises AssertionError;
\* unless a native call fails with an MQ error it returns normally after n + 4
\* native calls (open, n gets, the get that ends the loop, the verification get,
\* close), and the queue is empty afterwards.
C3_ClearEmpties ==
    [][OnConnected("Clear MQ Queue") =>
          /\ last'.exc.type \in {"none", "MQMIError"}
          /\ last'.exc.type = "MQMIError" =>
                \E i \in 1 .. Len(last'.calls) :
                    last'.calls[i] \in {"MQOPEN_FAILED", "MQGET_FAILED"}
          /\ last'.exc.type = "none" =>
                /\ queues'[Target] = <<>>
                /\ Count(last'.calls, "MQGET") = Len(Before)
                /\ Count(last'.calls, "MQGET_NO_MSG") = 2
                /\ Len(last'.calls) = Len(Before) + 4]_vars

\* Clear MQ Queue has returned after removing two messages.
C3_Witness ==
    /\ last.kw = "Clear MQ Queue"
    /\ last.exc.type = "none"
    /\ Count(last.calls, "MQGET") = 2

\* C4: Connect MQ with an alias that is a key of the mapping raises ValueError
\* without a native connection attempt and leaves the mapping as it was.
C4_ConnectTwiceRefused ==
    [][OnConnected("Connect MQ") =>
          /\ last'.exc = ValueError
          /\ last'.calls = <<>>
          /\ connections' = connections]_vars

\* Connect MQ was refused for an alias connected to another queue manager.
C4_Witness ==
    /\ last.kw = "Connect MQ"
    /\ last.exc = ValueError
    /\ last.alias \in DOMAIN connections
    /\ connections[last.alias].qm # last.qm

\* C5: when the native connect fails with an MQ error, Connect MQ raises, the
\* mapping is unchanged and the alias is not in it; it raises ValueError for
\* the reason codes 2058, 2538, 2540 and 2063 and the MQ error itself otherwise.
C5_ConnectFailure ==
    [][(last'.kw = "Connect MQ" /\ last'.native.type = "MQMIError") =>
          /\ connections' = connections
          /\ last'.alias \notin DOMAIN connections'
          /\ last'.exc.type # "none"
          /\ last'.exc.reason = last'.native.reason
          /\ last'.exc.type =
                IF last'.native.reason \in {2058, 2538, 2540, 2063}
                THEN "ValueError" ELSE "MQMIError"]_vars

\* Connect MQ has raised ValueError for MQRC_SECURITY_ERROR.
C5_Witness ==
    /\ last.kw = "Connect MQ"
    /\ last.native = MQMIError(MQRC_SECURITY_ERROR)
    /\ last.exc.type = "ValueError"

\* The entries of the mapping under the aliases other than alias are as they were.
OthersKept(alias) ==
    \A b \in Aliases \ {alias} :
        /\ b \in DOMAIN connections' <=> b \in DOMAIN connections
        /\ b \in DOMAIN connections => connections'[b] = connections[b]

\* C6: a queue keyword called with alias A works on the queue of the queue manager
\* stored under A and changes no other queue, and a Connect MQ, Disconnect MQ or
\* queue keyword on alias A leaves the mapping entry of every other alias unchanged.
C6_AliasIsolation ==
    [][/\ last'.kw \in QueueKeywords \cup {"Connect MQ", "Disconnect MQ"} =>
             OthersKept(last'.alias)
       /\ (last'.kw \in QueueKeywords /\ last'.alias \in DOMAIN connections) =>
             /\ \A key \in DOMAIN queues : key # Target => queues'[key] = queues[key]
             /\ (last'.kw = "Put MQ Message" /\ last'.exc.type = "none") =>
                   queues'[Target] = Append(Before, EncodeUTF8(last'.message))
             /\ (last'.kw = "Get MQ Messages" /\ last'.exc.type = "none") =>
                   queues'[Target] = SubSeq(Before, last'.amount + 1, Len(Before))
             /\ (last'.kw = "Browse MQ Messages" /\ last'.exc.type = "none") =>
                   last'.ret = DecodeAll(SubSeq(Before, 1, Min(last'.amount, Len(Before))))
             /\ (last'.kw = "Clear MQ Queue" /\ last'.exc.type = "none") =>
                   queues'[Target] = <<>>]_vars

\* With the two aliases connected to different queue managers, a message was put
\* through the alias "other".
C6_Witness ==
    /\ DOMAIN connections = Aliases
    /\ connections["default"].qm # connections["other"].qm
    /\ last.kw = "Put MQ Message"
    /\ last.alias = "other"
    /\ last.exc.type = "none"
    /\ queues[<<connections["default"].qm, last.queue>>] = <<>>

\* C7: no queue handle stays open after a keyword: a keyword opens at most one
\* handle, and a handle it opened is closed exactly once, by its last native call,
\* whether the keyword returned, raised AssertionError or raised an MQ error.
C7_CloseOnExit ==
    /\ openHandles = 0
    /\ Count(last.calls, "MQOPEN") <= 1
    /\ Count(last.calls, "MQCLOSE") = Count(last.calls, "MQOPEN")
    /\ Count(last.calls, "MQOPEN") = 1 =>
          /\ last.calls[1] = "MQOPEN"
          /\ last.calls[Len(last.calls)] = "MQCLOSE"

\* A get raised an MQ error after the handle was opened, and the handle was closed.
C7_Witness ==
    /\ last.kw = "Get MQ Messages"
    /\ last.exc.type = "MQMIError"
    /\ last.calls = <<"MQOPEN", "MQGET", "MQGET_FAILED", "MQCLOSE">>

\* C8: Disconnect MQ(alias) never raises and ends with the alias absent from the
\* mapping, also when the native disconnect raised; for an absent alias it changes
\* nothing and makes no native call; Disconnect All MQ Connections never raises
\* and leaves the mapping empty; Connect MQ for an alias that was just disconnected
\* is not refused as already connected.
C8_DisconnectAlwaysRemoves ==
    [][/\ last'.kw = "Disconnect MQ" =>
             /\ last'.exc.type = "none"
             /\ last'.alias \notin DOMAIN connections'
             /\ last'.alias \notin DOMAIN connections =>
                   /\ connections' = connections
                   /\ last'.calls = <<>>
       /\ last'.kw = "Disconnect All MQ Connections" =>
             /\ last'.exc.type = "none"
             /\ DOMAIN connections' = {}
             /\ Len(last'.calls) = Cardinality(DOMAIN connections)
       /\ (last'.kw = "Connect MQ"
           /\ \/ last.kw = "Disconnect MQ" /\ last.alias = last'.alias
              \/ last.kw = "Disconnect All MQ Connections") =>
             /\ last'.calls # <<>>
             /\ last'.native.type = "none" => last'.alias \in DOMAIN connections']_vars

\* Disconnect MQ removed an alias although the native disconnect raised.
C8_Witness ==
    /\ last.kw = "Disconnect MQ"
    /\ last.calls = <<"MQDISC_FAILED">>
    /\ last.alias \notin DOMAIN connections

\* C9: the keys of the mapping are the aliases for which a Connect MQ succeeded
\* with no Disconnect MQ or Disconnect All since; Put, Get, Browse and Clear with
\* an alias that is not a key raise ValueError, make no native call, and leave
\* the mapping and the queues unchanged.
C9_KeysAreLiveConnections ==
    [][/\ DOMAIN connections' = established'
       /\ (last'.kw \in QueueKeywords /\ last'.alias \notin DOMAIN connections) =>
             /\ last'.exc = ValueError
             /\ last'.calls = <<>>
             /\ last'.ret = <<>>
             /\ connections' = connections
             /\ queues' = queues
             /\ openHandles' = openHandles]_vars

\* Get MQ Messages was refused for an alias whose connect had failed, with
\* messages on the queues.
C9_Witness ==
    /\ last.kw = "Get MQ Messages"
    /\ last.exc = ValueError
    /\ last.alias \notin established
    /\ established # {}
    /\ Depth(queues) > 0

====
